---- MODULE Spec2Model ----
(***************************************************************************)
(* Model of squape's object-tree helpers (src/squape/object_tree.py):      *)
(* children, find, find_ancestor, siblings and the selector matcher        *)
(* _is_matching, over an object hierarchy owned by the automation engine.  *)
(***************************************************************************)
EXTENDS Integers, Sequences, FiniteSets, TLC

\* ------------------------------------------------------------------ bounds
MaxNodes == 4
MaxDepth == 3
MaxNameLen == 3
MaxExpLen == 2
MaxPairs == 3

Nodes == 1..MaxNodes
NoNode == 0

\* ------------------------------------------------------------ value domains
\* Strings are sequences of tokens; the QML separator is one token.
Sep == "_QMLTYPE_"
TypeTokens == {"Button", Sep}

RECURSIVE NamesOfLen(_)
NamesOfLen(k) ==
    IF k = 0 THEN {<<>>}
    ELSE {Append(s, t) : s \in NamesOfLen(k - 1), t \in TypeTokens}

NamesUpTo(k) == UNION {NamesOfLen(j) : j \in 0..k}

PyTrue == <<"True">>
PyFalse == <<"False">>
PyOne == <<"1">>
Missing == <<"$missing">>

AttrKeys == {"visible", "text"}

NoExc == "none"

\* ------------------------------------------------------------------- state
VARIABLES
    parent,      \* engine hierarchy: node -> parent node, NoNode at the top
    props,       \* engine objects: node -> [cls, attr]
    cmpByValue,  \* whether the engine's handles compare equal by value
    call,        \* the last call made: [op, arg, selector, max_depth]
    ret,         \* its outcome
    walk,        \* find_ancestor in progress: [pc, cur, par, visited, matched, moves]
    wait,        \* wait_for_any_object in progress, its arguments and outcome
    LOGLEVEL,        \* report.LOGLEVEL
    entries,         \* the engine's test report: entries in order
    throwOnFailure,  \* squish.testSettings.throwOnFailure
    fixates,         \* test.fixateResultContext calls so far
    restores,        \* test.restoreResultContext calls so far
    testModule,      \* test.<name>: what the attribute is bound to
    captured,        \* report._test_<name>: what the module global holds
    enables,         \* enable_loglevel_in_test_module calls so far
    rcall,           \* the last report call made: [api, fn, level]
    rret,            \* its outcome: [exc, emitted, fixated, restored]
    steps,           \* calls made so far
    testSettings,    \* squish.testSettings: setting name -> value
    initialSettings, \* testSettings before the first context was entered
    ctxStack,        \* the open contexts, innermost last
    sret,            \* the last context step: [op, name, value, exc, body]
    results,         \* test.resultCount: result category -> count
    attachments,     \* the attachments directory: file name -> content
    capStack,        \* the open video captures, innermost last
    vret             \* the last capture step, with what it found and left

treeVars == <<parent, props, cmpByValue, call, ret, walk, wait>>

reportVars == <<LOGLEVEL, entries, throwOnFailure, fixates, restores,
                testModule, captured, enables, rcall, rret, steps>>

settingsVars == <<testSettings, initialSettings, ctxStack, sret>>

videoVars == <<results, attachments, capStack, vret>>

vars == <<treeVars, reportVars, settingsVars, videoVars>>

\* -------------------------------------------------------- engine accessors
\* object.parent(ref)
object_parent(n) == parent[n]

RECURSIVE SortedSeq(_)
SortedSeq(S) ==
    IF S = {} THEN <<>>
    ELSE LET m == CHOOSE x \in S : \A y \in S : x <= y
         IN <<m>> \o SortedSeq(S \ {m})

\* object.children(ref): the ordered child sequence
object_children(n) == SortedSeq({c \in Nodes : parent[c] = n})

\* squish.className(ref)
className(n) == props[n].cls

\* Variant: the attribute is read without asking whether it is there
hasattrAlways(n, key) == TRUE

\* hasattr(ref, key) / getattr(ref, key)
hasattr(n, key) == props[n].attr[key] # Missing
getattr(n, key) == props[n].attr[key]

\* ref_a == ref_b on engine handles, as list.remove compares
ObjEq(a, b) == a = b \/ (cmpByValue /\ props[a] = props[b])

\* A reference-or-handle argument: a handle, or a symbolic name (a dict)
Handle(n) == [isName |-> FALSE, ref |-> n]
SymName(n) == [isName |-> TRUE, ref |-> n]

\* max_depth values: None / math.inf, or an integer
DepthInf == [inf |-> TRUE, n |-> 0]
DepthOf(k) == [inf |-> FALSE, n |-> k]
\* Variant: the recursion passes max_depth on undecremented
DepthKeep(d) == d
DepthDec(d) == IF d.inf THEN d ELSE DepthOf(d.n - 1)

\* ------------------------------------------------------------- selectors
\* A selector is a dict: its pairs in insertion order, keys distinct.
\* A pair expects a literal (fn = FALSE) or holds a function (fn = TRUE).
Lit(key, v) == [key |-> key, fn |-> FALSE, val |-> v]
Fn(key, name) == [key |-> key, fn |-> TRUE, val |-> <<name>>]

\* selector=None, as find and siblings default it
NoneSel == <<[key |-> "", fn |-> FALSE, val |-> <<"None">>]>>

\* The functions callers pass: lambda v: v is True; lambda v: 1
ApplyFunction(name, v) ==
    CASE name = <<"isTrue">> -> (IF v = PyTrue THEN PyTrue ELSE PyFalse)
      [] name = <<"one">> -> PyOne
      [] OTHER -> PyFalse

\* Variant: any result is taken for a boolean
IsBoolLenient(x) == TRUE

\* isinstance(x, bool)
IsBool(x) == x \in {PyTrue, PyFalse}

\* Variant: split(...)[0], the text before the first separator
SplitHead(s) ==
    LET at == {i \in 1..Len(s) : s[i] = Sep}
    IN IF at = {} THEN s
       ELSE LET first == CHOOSE i \in at : \A j \in at : i <= j
            IN SubSeq(s, 1, first - 1)

\* s.rsplit("_QMLTYPE_", 1)[0]: the text before the last separator
RsplitHead(s) ==
    LET at == {i \in 1..Len(s) : s[i] = Sep}
    IN IF at = {} THEN s
       ELSE LET last == CHOOSE i \in at : \A j \in at : j <= i
            IN SubSeq(s, 1, last - 1)

MatchTrue == [exc |-> NoExc, bool |-> TRUE]
MatchFalse == [exc |-> NoExc, bool |-> FALSE]
MatchRaise(e) == [exc |-> e, bool |-> FALSE]

\* The for loop of _is_matching from pair i on
RECURSIVE match_pairs(_, _, _)
match_pairs(obj, selector, i) ==
    IF i > Len(selector) THEN MatchTrue
    ELSE LET key == selector[i].key
             expected_value == selector[i]
         IN IF key = "type"
            THEN IF expected_value.fn \/ RsplitHead(className(obj)) # expected_value.val
                 THEN MatchFalse
                 ELSE match_pairs(obj, selector, i + 1)
            ELSE IF ~hasattr(obj, key)
            THEN MatchFalse
            ELSE LET attr == getattr(obj, key)
                 IN IF expected_value.fn
                    THEN LET lambda_result == ApplyFunction(expected_value.val, attr)
                         IN IF ~IsBool(lambda_result) THEN MatchRaise("RuntimeError")
                            ELSE IF lambda_result # PyTrue THEN MatchFalse
                            ELSE match_pairs(obj, selector, i + 1)
                    ELSE IF attr # expected_value.val THEN MatchFalse
                    ELSE match_pairs(obj, selector, i + 1)

\* Variant: the loop returns after its first pair
_is_matching_first_pair(obj, selector) ==
    IF selector = <<>> THEN MatchTrue
    ELSE IF selector = NoneSel THEN MatchRaise("AttributeError")
    ELSE match_pairs(obj, SubSeq(selector, 1, 1), 1)

\* Variant: a "type" pair is passed over
_is_matching_skip_type(obj, selector) ==
    IF selector = <<>> THEN MatchTrue
    ELSE IF selector = NoneSel THEN MatchRaise("AttributeError")
    ELSE LET NotType(pair) == pair.key # "type"
         IN match_pairs(obj, SelectSeq(selector, NotType), 1)

\* Variant: only the pair the loop ends on is checked
_is_matching_last_pair(obj, selector) ==
    IF selector = <<>> THEN MatchTrue
    ELSE IF selector = NoneSel THEN MatchRaise("AttributeError")
    ELSE match_pairs(obj, SubSeq(selector, Len(selector), Len(selector)), 1)

_is_matching(obj, selector) ==
    IF selector = <<>> THEN MatchTrue
    ELSE IF selector = NoneSel THEN MatchRaise("AttributeError")
    ELSE match_pairs(obj, selector, 1)

\* ---------------------------------------------------------- call outcomes
\* exc: the exception raised (NoExc: returned normally); val: the returned
\* tuple; node: the returned object (NoNode: None); none: None was returned
\* where a tuple is expected; bool: the matcher's verdict; fetched: the
\* nodes whose children were fetched, in order; resolved: the symbolic
\* names looked up, in order.
Ret0 ==
    [exc |-> NoExc, val |-> <<>>, node |-> NoNode, none |-> FALSE,
     bool |-> FALSE, fetched |-> <<>>, resolved |-> <<>>]

\* _get_object_reference: squish.waitForObjectExists for a dict, otherwise
\* the argument itself; a name no object answers to raises LookupError
_get_object_reference(object_or_name) ==
    IF object_or_name.isName
    THEN IF object_or_name.ref = NoNode
         THEN [Ret0 EXCEPT !.exc = "LookupError", !.resolved = <<object_or_name>>]
         ELSE [Ret0 EXCEPT !.node = object_or_name.ref,
                           !.resolved = <<object_or_name>>]
    ELSE [Ret0 EXCEPT !.node = object_or_name.ref]

\* tuple(filter(lambda x: _is_matching(x, selector), seq)) from element i on
RECURSIVE filter_matching(_, _, _, _)
filter_matching(seq, selector, i, acc) ==
    IF i > Len(seq) THEN acc
    ELSE LET m == _is_matching(seq[i], selector)
         IN IF m.exc # NoExc THEN [acc EXCEPT !.exc = m.exc, !.val = <<>>]
            ELSE filter_matching(seq, selector, i + 1,
                     IF m.bool THEN [acc EXCEPT !.val = Append(@, seq[i])] ELSE acc)

\* find(object_or_name, selector, max_depth); find_loop is its for loop
\* over the children kids from child i on, acc the outcome so far
RECURSIVE find(_, _, _)
RECURSIVE find_loop(_, _, _, _, _)
\* Variant: a child is appended after its descendants (post-order)
find_loop_postorder(kids, i, selector, max_depth, acc) ==
    IF i > Len(kids) THEN acc
    ELSE LET child == kids[i]
             m == _is_matching(child, selector)
         IN IF m.exc # NoExc THEN [acc EXCEPT !.exc = m.exc, !.val = <<>>]
            ELSE LET sub == find(Handle(child), selector, DepthDec(max_depth))
                     own == IF m.bool THEN <<child>> ELSE <<>>
                     acc2 == [acc EXCEPT !.val = @ \o sub.val \o own,
                                         !.fetched = @ \o sub.fetched,
                                         !.resolved = @ \o sub.resolved]
                 IN IF sub.exc # NoExc
                    THEN [acc2 EXCEPT !.exc = sub.exc, !.val = <<>>]
                    ELSE find_loop(kids, i + 1, selector, max_depth, acc2)

find_loop(kids, i, selector, max_depth, acc) ==
    IF i > Len(kids) THEN acc
    ELSE LET child == kids[i]
             m == _is_matching(child, selector)
         IN IF m.exc # NoExc THEN [acc EXCEPT !.exc = m.exc, !.val = <<>>]
            ELSE LET acc1 == IF m.bool THEN [acc EXCEPT !.val = Append(@, child)]
                             ELSE acc
                     sub == find(Handle(child), selector, DepthDec(max_depth))
                     acc2 == [acc1 EXCEPT !.val = @ \o sub.val,
                                          !.fetched = @ \o sub.fetched,
                                          !.resolved = @ \o sub.resolved]
                 IN IF sub.exc # NoExc
                    THEN [acc2 EXCEPT !.exc = sub.exc, !.val = <<>>]
                    ELSE find_loop(kids, i + 1, selector, max_depth, acc2)

\* Variant: the reference is resolved before max_depth is looked at
find_resolve_first(object_or_name, selector, max_depth) ==
    LET sel == IF selector = NoneSel THEN <<>> ELSE selector
        r == _get_object_reference(object_or_name)
    IN IF r.exc # NoExc THEN r
       ELSE IF ~max_depth.inf /\ max_depth.n <= 0 THEN [r EXCEPT !.node = NoNode]
       ELSE find_loop(object_children(r.node), 1, sel, max_depth,
                [r EXCEPT !.node = NoNode, !.fetched = <<r.node>>])

\* Variant: max_depth 0 still lists the direct children (max_depth < 0)
find_depth0_children(object_or_name, selector, max_depth) ==
    IF ~max_depth.inf /\ max_depth.n < 0 THEN Ret0
    ELSE LET sel == IF selector = NoneSel THEN <<>> ELSE selector
             r == _get_object_reference(object_or_name)
         IN IF r.exc # NoExc THEN r
            ELSE find_loop(object_children(r.node), 1, sel, max_depth,
                     [r EXCEPT !.node = NoNode, !.fetched = <<r.node>>])

\* Variant: the children are fetched before max_depth is looked at
find_fetch_at_limit(object_or_name, selector, max_depth) ==
    LET sel == IF selector = NoneSel THEN <<>> ELSE selector
        r == _get_object_reference(object_or_name)
    IN IF r.exc # NoExc THEN r
       ELSE IF ~max_depth.inf /\ max_depth.n <= 0
       THEN [r EXCEPT !.node = NoNode, !.fetched = <<r.node>>]
       ELSE find_loop(object_children(r.node), 1, sel, max_depth,
                [r EXCEPT !.node = NoNode, !.fetched = <<r.node>>])

find(object_or_name, selector, max_depth) ==
    IF ~max_depth.inf /\ max_depth.n <= 0 THEN Ret0
    ELSE LET sel == IF selector = NoneSel THEN <<>> ELSE selector
             r == _get_object_reference(object_or_name)
         IN IF r.exc # NoExc THEN r
            ELSE find_loop(object_children(r.node), 1, sel, max_depth,
                     [r EXCEPT !.node = NoNode, !.fetched = <<r.node>>])

\* children(object_or_name, selector)
\* Variant: grandchildren are listed too
children_deep(object_or_name, selector) == find(object_or_name, selector, DepthOf(2))

children(object_or_name, selector) ==
    LET r == _get_object_reference(object_or_name)
    IN IF r.exc # NoExc THEN r
       ELSE filter_matching(object_children(r.node), selector, 1,
                [r EXCEPT !.node = NoNode, !.fetched = <<r.node>>])

\* find_ancestor(object_or_name, selector)
RECURSIVE find_ancestor(_, _)
\* Variant: the starting node itself is tested first
find_ancestor_self_first(object_or_name, selector) ==
    LET r == _get_object_reference(object_or_name)
    IN IF r.exc # NoExc THEN r
       ELSE LET m == _is_matching(r.node, selector)
            IN IF m.exc # NoExc THEN [r EXCEPT !.node = NoNode, !.exc = m.exc]
               ELSE IF m.bool THEN r
               ELSE IF object_parent(r.node) = NoNode
               THEN [r EXCEPT !.node = NoNode, !.none = TRUE]
               ELSE LET up == find_ancestor(Handle(object_parent(r.node)), selector)
                    IN [up EXCEPT !.resolved = r.resolved \o @]

find_ancestor(object_or_name, selector) ==
    LET r == _get_object_reference(object_or_name)
    IN IF r.exc # NoExc THEN r
       ELSE LET par == object_parent(r.node)
            IN IF par = NoNode THEN [r EXCEPT !.node = NoNode, !.none = TRUE]
               ELSE LET m == _is_matching(object_parent(r.node), selector)
                    IN IF m.exc # NoExc
                       THEN [r EXCEPT !.node = NoNode, !.exc = m.exc]
                       ELSE IF m.bool THEN [r EXCEPT !.node = par]
                       ELSE LET up == find_ancestor(Handle(par), selector)
                            IN [up EXCEPT !.resolved = r.resolved \o @]

\* list.remove(x): drops the first element that compares equal to x
ListRemove(seq, x) ==
    LET at == {i \in 1..Len(seq) : ObjEq(seq[i], x)}
    IN IF at = {} THEN seq
       ELSE LET first == CHOOSE i \in at : \A j \in at : i <= j
            IN SubSeq(seq, 1, first - 1) \o SubSeq(seq, first + 1, Len(seq))

\* Variant: a failed lookup is answered with None
siblings_swallow_lookup(object_or_name, selector) ==
    LET sel == IF selector = NoneSel THEN <<>> ELSE selector
        r == _get_object_reference(object_or_name)
    IN IF r.exc # NoExc THEN [Ret0 EXCEPT !.none = TRUE, !.resolved = r.resolved]
       ELSE LET par == object_parent(r.node)
            IN IF par = NoNode THEN [r EXCEPT !.node = NoNode, !.none = TRUE]
               ELSE filter_matching(ListRemove(object_children(par), r.node), sel, 1,
                        [r EXCEPT !.node = NoNode, !.fetched = <<par>>])

\* siblings(object_or_name, selector)
siblings(object_or_name, selector) ==
    LET sel == IF selector = NoneSel THEN <<>> ELSE selector
        r == _get_object_reference(object_or_name)
    IN IF r.exc # NoExc THEN r
       ELSE LET par == object_parent(r.node)
            IN IF par = NoNode THEN [r EXCEPT !.node = NoNode, !.none = TRUE]
               ELSE LET sibs == object_children(par)
                        r1 == [r EXCEPT !.node = NoNode, !.fetched = <<par>>]
                    IN IF \A i \in 1..Len(sibs) : ~ObjEq(sibs[i], r.node)
                       THEN [r1 EXCEPT !.exc = "ValueError"]
                       ELSE filter_matching(ListRemove(sibs, r.node), sel, 1, r1)

\* ------------------------------------------------------------------ inputs
Attrs(visible, text) == [k \in AttrKeys |-> IF k = "visible" THEN visible ELSE text]

\* The objects of the hierarchies searched
TreeProfiles ==
    { [cls |-> <<"Button">>, attr |-> Attrs(PyTrue, Missing)],
      [cls |-> <<"Label", Sep, "1">>, attr |-> Attrs(PyFalse, <<"ok">>)] }

\* The hierarchies: one top-level object, every other node below an
\* earlier one
Trees == {f \in [Nodes -> 0..MaxNodes] :
             /\ f[1] = NoNode
             /\ \A n \in Nodes \ {1} : f[n] \in 1..(n - 1)}

\* Reference-or-handle arguments: every handle, the symbolic name of the
\* top-level object and a symbolic name no object answers to
Args == {Handle(n) : n \in Nodes} \cup {SymName(1), SymName(NoNode)}

\* max_depth arguments: None and the integers around the depths there are
Depths == {DepthInf} \cup {DepthOf(k) : k \in -1..MaxDepth}

TreeSelectors ==
    { <<>>,
      NoneSel,
      <<Lit("type", <<"Button">>)>>,
      <<Lit("type", <<"Label">>), Lit("visible", PyFalse)>>,
      <<Fn("text", "one")>> }

\* The objects and selectors the matcher is applied to
MatchProfiles ==
    { [cls |-> c, attr |-> Attrs(v, t)] :
        c \in NamesUpTo(MaxNameLen), v \in {Missing, PyTrue, PyFalse},
        t \in {Missing, <<"ok">>} }

MatchPairs ==
    {Lit("type", t) : t \in NamesUpTo(MaxExpLen)}
    \cup {Fn("type", "isTrue")}
    \cup {Lit("visible", PyTrue), Lit("visible", PyFalse),
          Fn("visible", "isTrue"), Fn("visible", "one")}
    \cup {Lit("text", <<"ok">>), Fn("text", "one")}

MatchSelectors ==
    {sel \in UNION {[1..k -> MatchPairs] : k \in 0..MaxPairs} :
        \A i, j \in 1..Len(sel) : i # j => sel[i].key # sel[j].key}

NoCall == [op |-> "none", arg |-> Handle(NoNode), selector |-> <<>>,
           max_depth |-> DepthInf]

\* ------------------------------------------- find_ancestor, step by step
\* The same function with its accessor calls as separate steps, so that the
\* engine's hierarchy can change between them
MaxMoves == 1

\* pc: where the call stands; cur: object_reference; par: the local
\* variable parent; visited: the nodes the matcher was applied to, in
\* order; matched: the node the matcher accepted; moves: changes of the
\* hierarchy made meanwhile
NoWalk ==
    [pc |-> "idle", cur |-> NoNode, par |-> NoNode, visited |-> <<>>,
     matched |-> NoNode, moves |-> 0]

\* object_reference = _get_object_reference(object_or_name)
walk_enter(w, r) ==
    IF r.exc # NoExc THEN [w EXCEPT !.pc = "done"]
    ELSE [w EXCEPT !.pc = "fetch", !.cur = r.node]

\* parent = object.parent(object_reference); if parent is None: return None
walk_fetch(w) ==
    IF object_parent(w.cur) = NoNode
    THEN [w EXCEPT !.pc = "done", !.par = NoNode]
    ELSE [w EXCEPT !.pc = "test", !.par = object_parent(w.cur)]

\* Variant: the recursive call is made on the object itself
walk_recurse_on_self(w) == [w EXCEPT !.pc = "fetch"]

\* return find_ancestor(parent, selector)
walk_recurse(w) == [w EXCEPT !.pc = "fetch", !.cur = w.par]

\* if _is_matching(object.parent(object_reference), selector): return parent
walk_test(w, selector) ==
    LET seen == object_parent(w.cur)
        m == _is_matching(seen, selector)
        w1 == [w EXCEPT !.visited = Append(@, seen)]
    IN  IF m.exc # NoExc THEN [w1 EXCEPT !.pc = "done"]
        ELSE IF m.bool THEN [w1 EXCEPT !.pc = "done", !.matched = seen]
        ELSE walk_recurse(w1)

\* What the call returns once the walk is done
walk_ret(w, selector, r) ==
    IF w.pc # "done" THEN r
    ELSE IF w.par = NoNode THEN [r EXCEPT !.node = NoNode, !.none = TRUE]
    ELSE IF w.matched # NoNode THEN [r EXCEPT !.node = w.par]
    ELSE [r EXCEPT !.node = NoNode,
                   !.exc = _is_matching(w.visited[Len(w.visited)], selector).exc]

\* ------------------------------------------------------------ report module
MaxCalls == 3

\* class LogLevel
DEBUG == 10
LOG == 20
WARNING == 30
FAIL == 40
FATAL == 50

LevelNames == {"FATAL", "FAIL", "WARN", "WARNING", "LOG", "DEBUG"}

_nameToLevel ==
    [name \in LevelNames |->
        CASE name = "FATAL" -> FATAL
          [] name = "FAIL" -> FAIL
          [] name \in {"WARN", "WARNING"} -> WARNING
          [] name = "LOG" -> LOG
          [] name = "DEBUG" -> DEBUG]

\* The values a caller can hand to set_level: an int, a str, anything else
IntLevel(i) == [kind |-> "int", i |-> i, s |-> ""]
StrLevel(s) == [kind |-> "str", i |-> 0, s |-> s]
OtherLevel == [kind |-> "other", i |-> 0, s |-> ""]

\* Variant: a string that names no level falls back to DEBUG
__translate_Level_lenient(level) ==
    CASE level.kind = "int" -> [exc |-> NoExc, val |-> level.i]
      [] level.kind = "str" /\ level.s \in DOMAIN _nameToLevel ->
            [exc |-> NoExc, val |-> _nameToLevel[level.s]]
      [] OTHER -> [exc |-> NoExc, val |-> DEBUG]

__translate_Level(level) ==
    IF level.kind = "int"
    THEN [exc |-> NoExc, val |-> level.i]
    ELSE IF level.kind = "str"
         THEN IF level.s \notin DOMAIN _nameToLevel
              THEN [exc |-> "ValueError", val |-> 0]
              ELSE [exc |-> NoExc, val |-> _nameToLevel[level.s]]
         ELSE [exc |-> "TypeError", val |-> 0]

\* set_level: the assignment happens only when the translation returned
set_level(level) ==
    LET rv == __translate_Level(level)
    IN  [exc |-> rv.exc,
         LOGLEVEL |-> IF rv.exc = NoExc THEN rv.val ELSE LOGLEVEL]

ReportFns == {"debug", "log", "warning", "fail", "fatal"}
EngineFns == {"log", "warning", "fail", "fatal"}

\* The part of the state a report call works on, threaded through its steps
ReportSt ==
    [LOGLEVEL |-> LOGLEVEL, entries |-> entries,
     throwOnFailure |-> throwOnFailure, fixates |-> fixates,
     restores |-> restores, exc |-> NoExc]

Entry(fn, tagged) == [fn |-> fn, debug |-> tagged]

\* The engine's own test.log / test.warning / test.fail / test.fatal: the
\* entry is written, and fail and fatal then raise when throwOnFailure is set
engine_report(fn, tagged, s) ==
    LET s1 == [s EXCEPT !.entries = Append(@, Entry(fn, tagged))]
    IN  IF fn \in {"fail", "fatal"} /\ s.throwOnFailure
        THEN [s1 EXCEPT !.exc = "TestFailure"]
        ELSE s1

\* _test_log / _test_warning / _test_fail / _test_fatal: a call through the
\* module global; a global bound to the wrapper re-enters it without end
_test(fn, tagged, s) ==
    IF captured[fn] = "engine"
    THEN engine_report(fn, tagged, s)
    ELSE [s EXCEPT !.exc = "RecursionError"]

fixateResultContext(s) == [s EXCEPT !.fixates = @ + 1]
restoreResultContext(s) == [s EXCEPT !.restores = @ + 1]

\* Variant: a level is enabled only when LOGLEVEL is strictly below it
__is_level_enabled_strict(level, s) == s.LOGLEVEL < level

__is_level_enabled(level, s) == s.LOGLEVEL <= level

debug(s) ==
    IF __is_level_enabled(DEBUG, s)
    THEN restoreResultContext(_test("log", TRUE, fixateResultContext(s)))
    ELSE s

log(s) ==
    IF __is_level_enabled(LOG, s)
    THEN restoreResultContext(_test("log", FALSE, fixateResultContext(s)))
    ELSE s

warning(s) ==
    IF __is_level_enabled(WARNING, s)
    THEN restoreResultContext(_test("warning", FALSE, fixateResultContext(s)))
    ELSE s

fail(s) ==
    IF __is_level_enabled(FAIL, s)
    THEN restoreResultContext(_test("fail", FALSE, fixateResultContext(s)))
    ELSE s

\* Variant: the result context is restored only when the engine returned
fatal_no_finally(s) ==
    IF __is_level_enabled(FATAL, s)
    THEN LET s1 == _test("fatal", FALSE,
                         [fixateResultContext(s) EXCEPT !.throwOnFailure = TRUE])
         IN  IF s1.exc = NoExc THEN restoreResultContext(s1) ELSE s1
    ELSE s

\* Variant: throwOnFailure is set only after the engine's fatal returned
fatal_throw_after(s) ==
    IF __is_level_enabled(FATAL, s)
    THEN LET s1 == _test("fatal", FALSE, fixateResultContext(s))
         IN  restoreResultContext(
                IF s1.exc = NoExc
                THEN [s1 EXCEPT !.throwOnFailure = TRUE]
                ELSE s1)
    ELSE s

fatal(s) ==
    IF __is_level_enabled(FATAL, s)
    THEN restoreResultContext(
            _test("fatal", FALSE,
                  [fixateResultContext(s) EXCEPT !.throwOnFailure = TRUE]))
    ELSE s

\* The function object report.<fn>
report_fn(fn, s) ==
    CASE fn = "debug" -> debug(s)
      [] fn = "log" -> log(s)
      [] fn = "warning" -> warning(s)
      [] fn = "fail" -> fail(s)
      [] fn = "fatal" -> fatal(s)

\* A call of test.<fn> by a test script: whatever the attribute is bound to
test_call(fn, s) ==
    CASE testModule[fn] = "wrapper" -> report_fn(fn, s)
      [] testModule[fn] = "engine" -> engine_report(fn, FALSE, s)
      [] OTHER -> [s EXCEPT !.exc = "AttributeError"]

ModuleBindings == [module |-> testModule, globals |-> captured]

\* Variant: the module globals are captured again on every call
enable_loglevel_recapture(b) ==
    [module |-> [fn \in ReportFns |-> "wrapper"],
     globals |-> [fn \in EngineFns |->
                    IF b.module[fn] = "wrapper" THEN "wrapper" ELSE b.globals[fn]]]

\* enable_loglevel_in_test_module: the five attributes of test are rebound
enable_loglevel_in_test_module(b) ==
    [module |-> [fn \in ReportFns |-> "wrapper"], globals |-> b.globals]

\* The engine's test module as it is imported; _test_* captured from it
EngineTestModule ==
    [fn \in ReportFns |-> IF fn = "debug" THEN "absent" ELSE "engine"]

IntLevels == {DEBUG, WARNING + 5, FATAL + 10}
LevelInputs ==
    {IntLevel(i) : i \in IntLevels}
    \cup {StrLevel(n) : n \in LevelNames \cup {"TRACE", "debug"}}
    \cup {OtherLevel}

NoLevel == [kind |-> "none", i |-> 0, s |-> ""]
NoReportCall == [api |-> "none", fn |-> "none", level |-> NoLevel]
NoReportRet == [exc |-> NoExc, emitted |-> <<>>, fixated |-> 0, restored |-> 0]

\* ---------------------------------------------------------- settings module
MaxValue == 1
MaxOpen == 2
MaxCtxSteps == 4

\* The context managers modelled, by the setting each one names
SettingNames == {"waitForObjectTimeout", "retryDuration"}
SettingValues == 0..MaxValue

Frame(name, current_value, value) ==
    [name |-> name, current_value |-> current_value, value |-> value]

\* Variant: a setting the engine lacks is created by the assignment
_ctx_settings_enter_create(setting_name, value, ts, s) ==
    [exc |-> NoExc, body |-> TRUE,
     ts |-> [n \in DOMAIN ts \cup {setting_name} |->
                IF n = setting_name THEN value ELSE ts[n]],
     frame |-> Frame(setting_name,
                     IF setting_name \in DOMAIN ts THEN ts[setting_name] ELSE 0,
                     value),
     s |-> test_call("log", s)]

\* _ctx_settings up to its yield: ts is squish.testSettings, s the report
\* state test.log works on. The result says whether the body is reached.
_ctx_settings_enter(setting_name, value, ts, s) ==
    IF setting_name \notin DOMAIN ts
    THEN [exc |-> "SquishCapabilityError", body |-> FALSE, ts |-> ts,
          frame |-> Frame(setting_name, 0, value), s |-> s]
    ELSE LET current_value == ts[setting_name]
             s1 == test_call("log", s)
         IN  [exc |-> NoExc, body |-> TRUE,
              ts |-> [ts EXCEPT ![setting_name] = value],
              frame |-> Frame(setting_name, current_value, value), s |-> s1]

\* Variant: the value is put back only when the body returned
_ctx_settings_exit_no_finally(frame, body_exc, ts, s) ==
    IF body_exc = NoExc
    THEN [exc |-> body_exc,
          ts |-> [ts EXCEPT ![frame.name] = frame.current_value],
          s |-> test_call("log", s)]
    ELSE [exc |-> body_exc, ts |-> ts, s |-> s]

\* _ctx_settings from its yield on: body_exc is what the body raised, NoExc
\* when it returned; the finally clause runs either way
_ctx_settings_exit(frame, body_exc, ts, s) ==
    [exc |-> body_exc,
     ts |-> [ts EXCEPT ![frame.name] = frame.current_value],
     s |-> test_call("log", s)]

NoCtxStep ==
    [op |-> "none", name |-> "", value |-> 0, exc |-> NoExc, body |-> FALSE]

\* -------------------------------------------------------------- video module
MaxCaptures == 2
MaxResults == 1

\* test.resultCount categories: the four that count as failures, and one
\* that does not
FailureCategories == {"errors", "fatals", "xpasses", "fails"}
ResultCategories == FailureCategories \cup {"warnings"}

\* File names in the attachments directory, as stem and extension
Files == {<<"a", ".mp4">>, <<"b", ".mp4">>, <<"shot", ".png">>}
NoFile == <<>>

\* file.endswith(".mp4")
endswith_mp4(file) == file[Len(file)] = ".mp4"

\* Variant: xpasses are not counted
_failure_results_count_no_xpasses(rc) == rc["errors"] + rc["fatals"] + rc["fails"]

_failure_results_count(rc) ==
    rc["errors"] + rc["fatals"] + rc["xpasses"] + rc["fails"]

\* _videos_set: the .mp4 files listed in the attachments directory; a
\* directory that is not there lists nothing
_videos_set(att) == {file \in DOMAIN att : att[file] # "absent" /\ endswith_mp4(file)}

\* test.log called n times
RECURSIVE log_times(_, _)
log_times(n, s) == IF n = 0 THEN s ELSE log_times(n - 1, test_call("log", s))

\* _replace_videos: each named file is logged and overwritten with the
\* placeholder video
_replace_videos(videos, att, s) ==
    IF Cardinality(videos) = 0 THEN [att |-> att, s |-> s]
    ELSE [att |-> [file \in DOMAIN att |->
                      IF file \in videos THEN "placeholder" ELSE att[file]],
          s |-> log_times(Cardinality(videos), s)]

\* The engine's test.stopVideoCapture: the recording is written as a new
\* file, or, where the engine attaches it later, not yet
stopVideoCapture(att, written) ==
    IF written = NoFile THEN att ELSE [att EXCEPT ![written] = "video"]

\* video_capture up to its yield
video_capture_enter(remove_on_success, att, rc) ==
    [remove_on_success |-> remove_on_success,
     initial_videos |-> IF remove_on_success THEN _videos_set(att) ELSE {},
     initial_result_count |->
        IF remove_on_success THEN _failure_results_count(rc) ELSE 0]

\* video_capture from its yield on: att is the directory after
\* test.stopVideoCapture
video_capture_exit(frame, att, rc, s) ==
    IF frame.remove_on_success
        /\ _failure_results_count(rc) - frame.initial_result_count = 0
    THEN _replace_videos(_videos_set(att) \ frame.initial_videos, att, s)
    ELSE [att |-> att, s |-> s]

NoCaptureStep ==
    [op |-> "none", remove_on_success |-> FALSE, exc |-> NoExc,
     entryFiles |-> {}, replaced |-> {}]

\* ------------------------------------------------------ wait_for_any_object
MaxNames == 2
MaxTimeout == 1

\* Object names, the lists of them a caller hands over, and timeouts in
\* clock ticks
ObjectNames == {"a", "b"}
NameLists == UNION {[1..k -> ObjectNames] : k \in 0..MaxNames}
Timeouts == 0..MaxTimeout

\* What one zero-timeout lookup of the engine can answer
LookupAnswers == {"found", "LookupError", "RuntimeError"}

\* pc: where the call stands; lookup_function, names, timeout: its
\* arguments; idx: the name the for loop stands at; round: the pass of the
\* while loop; now: time.time() - start_time; attempts: the lookups made,
\* in order; obj, exc: the outcome
NoWait ==
    [pc |-> "idle", lookup_function |-> "", names |-> <<>>, timeout |-> 0,
     idx |-> 1, round |-> 1, now |-> 0, attempts |-> <<>>, obj |-> "",
     exc |-> NoExc]

\* The decorator could not enter its objectNotFoundDebugging(False) context
wait_refused(w, exc) == [w EXCEPT !.pc = "done", !.exc = exc]

\* lookup_errors = set(); start_time = time.time()
wait_start(lookup_function, names, timeout) ==
    [NoWait EXCEPT !.pc = "round", !.lookup_function = lookup_function,
                   !.names = names, !.timeout = timeout]

\* One pass of the for loop body: return lookup_function(obj_name, 0),
\* a LookupError being kept and anything else left to propagate; the
\* lookup took dt ticks
wait_lookup(w, answer, dt) ==
    LET w1 == [w EXCEPT !.now = @ + dt,
                        !.attempts = Append(@, [round |-> w.round,
                                                name |-> w.names[w.idx],
                                                answer |-> answer])]
    IN  IF answer = "found"
        THEN [w1 EXCEPT !.pc = "done", !.obj = w.names[w.idx]]
        ELSE IF answer = "LookupError"
        THEN [w1 EXCEPT !.idx = @ + 1]
        ELSE [w1 EXCEPT !.pc = "done", !.exc = answer]

\* Variant: the wait gives up as soon as the timeout is reached
timed_out_at_timeout(elapsed_time, timeout) == elapsed_time >= timeout

\* if elapsed_time > timeout: break
timed_out(elapsed_time, timeout) == elapsed_time > timeout

\* After the for loop: break and raise LookupError, or squish.snooze and
\* the next pass
wait_round_end(w) ==
    IF timed_out(w.now, w.timeout)
    THEN [w EXCEPT !.pc = "done", !.exc = "LookupError"]
    ELSE [w EXCEPT !.now = @ + 1, !.round = @ + 1, !.idx = 1]

\* --------------------------------------------------------- object tree spec
\* One behaviour is one call on one hierarchy: the operations keep no state
\* between calls.
\* report.py as imported: set_level(LogLevel.LOG), _test_* taken from test
ReportLoaded ==
    /\ LOGLEVEL = set_level(IntLevel(LOG)).LOGLEVEL
    /\ entries = <<>>
    /\ fixates = 0
    /\ restores = 0
    /\ testModule = EngineTestModule
    /\ captured = [fn \in EngineFns |-> EngineTestModule[fn]]
    /\ enables = 0
    /\ rcall = NoReportCall
    /\ rret = NoReportRet
    /\ steps = 0

\* No capture running
NoVideo ==
    /\ results = [c \in ResultCategories |-> 0]
    /\ attachments = [file \in Files |-> "absent"]
    /\ capStack = <<>>
    /\ vret = NoCaptureStep

\* No context entered
SettingsUntouched ==
    /\ initialSettings = testSettings
    /\ ctxStack = <<>>
    /\ sret = NoCtxStep

Init ==
    /\ parent \in Trees
    /\ props \in [Nodes -> TreeProfiles]
    /\ cmpByValue \in BOOLEAN
    /\ call = NoCall
    /\ ret = Ret0
    /\ walk = NoWalk
    /\ wait = NoWait
    /\ ReportLoaded
    /\ throwOnFailure = FALSE
    /\ testSettings = [n \in SettingNames |-> 0]
    /\ SettingsUntouched
    /\ NoVideo

Call_children ==
    \E a \in Args, sel \in TreeSelectors :
        /\ call.op = "none"
        /\ call' = [op |-> "children", arg |-> a, selector |-> sel,
                    max_depth |-> DepthInf]
        /\ ret' = children(a, sel)
        /\ UNCHANGED <<parent, props, cmpByValue, wait, walk, reportVars, settingsVars, videoVars>>

Call_find ==
    \E a \in Args, sel \in TreeSelectors, d \in Depths :
        /\ call.op = "none"
        /\ call' = [op |-> "find", arg |-> a, selector |-> sel, max_depth |-> d]
        /\ ret' = find(a, sel, d)
        /\ UNCHANGED <<parent, props, cmpByValue, wait, walk, reportVars, settingsVars, videoVars>>

Call_find_ancestor ==
    \E a \in Args, sel \in TreeSelectors :
        /\ call.op = "none"
        /\ call' = [op |-> "find_ancestor", arg |-> a, selector |-> sel,
                    max_depth |-> DepthInf]
        /\ ret' = find_ancestor(a, sel)
        /\ UNCHANGED <<parent, props, cmpByValue, wait, walk, reportVars, settingsVars, videoVars>>

Call_siblings ==
    \E a \in Args, sel \in TreeSelectors :
        /\ call.op = "none"
        /\ call' = [op |-> "siblings", arg |-> a, selector |-> sel,
                    max_depth |-> DepthInf]
        /\ ret' = siblings(a, sel)
        /\ UNCHANGED <<parent, props, cmpByValue, wait, walk, reportVars, settingsVars, videoVars>>

Next ==
    \/ Call_children
    \/ Call_find
    \/ Call_find_ancestor
    \/ Call_siblings

Spec == Init /\ [][Next]_vars

\* ------------------------------------------------------------ matcher spec
InitMatch ==
    /\ parent = [n \in Nodes |-> NoNode]
    /\ \E p \in MatchProfiles : props = [n \in Nodes |-> p]
    /\ cmpByValue = FALSE
    /\ call = NoCall
    /\ ret = Ret0
    /\ walk = NoWalk
    /\ wait = NoWait
    /\ ReportLoaded
    /\ throwOnFailure = FALSE
    /\ testSettings = [n \in SettingNames |-> 0]
    /\ SettingsUntouched
    /\ NoVideo

Call_is_matching ==
    \E sel \in MatchSelectors :
        /\ call.op = "none"
        /\ call' = [op |-> "_is_matching", arg |-> Handle(1), selector |-> sel,
                    max_depth |-> DepthInf]
        /\ ret' = LET m == _is_matching(1, sel)
                  IN [Ret0 EXCEPT !.exc = m.exc, !.bool = m.bool]
        /\ UNCHANGED <<parent, props, cmpByValue, wait, walk, reportVars, settingsVars, videoVars>>

NextMatch == Call_is_matching

SpecMatch == InitMatch /\ [][NextMatch]_vars

\* ------------------------------------------------ find_ancestor step spec
InitWalk ==
    /\ parent \in Trees
    /\ props \in [Nodes -> TreeProfiles]
    /\ cmpByValue = FALSE
    /\ call = NoCall
    /\ ret = Ret0
    /\ walk = NoWalk
    /\ wait = NoWait
    /\ ReportLoaded
    /\ throwOnFailure = FALSE
    /\ testSettings = [n \in SettingNames |-> 0]
    /\ SettingsUntouched
    /\ NoVideo

Walk_call ==
    \E a \in Args, sel \in TreeSelectors :
        LET r == _get_object_reference(a)
        IN  /\ call.op = "none"
            /\ call' = [op |-> "find_ancestor", arg |-> a, selector |-> sel,
                        max_depth |-> DepthInf]
            /\ walk' = walk_enter(walk, r)
            /\ ret' = r
            /\ UNCHANGED <<parent, props, cmpByValue, wait, reportVars, settingsVars, videoVars>>

Walk_fetch_parent ==
    /\ walk.pc = "fetch"
    /\ walk' = walk_fetch(walk)
    /\ ret' = walk_ret(walk', call.selector, ret)
    /\ UNCHANGED <<parent, props, cmpByValue, wait, call, reportVars, settingsVars, videoVars>>

Walk_test_parent ==
    /\ walk.pc = "test"
    /\ walk' = walk_test(walk, call.selector)
    /\ ret' = walk_ret(walk', call.selector, ret)
    /\ UNCHANGED <<parent, props, cmpByValue, wait, call, reportVars, settingsVars, videoVars>>

\* The objects above n in the engine's hierarchy
RECURSIVE above(_)
above(n) == IF parent[n] = NoNode THEN {} ELSE {parent[n]} \cup above(parent[n])

\* The application under test moves the current object below another one
Reparent ==
    \E p \in Nodes :
        /\ walk.pc \in {"fetch", "test"}
        /\ walk.moves < MaxMoves
        /\ parent[walk.cur] # NoNode
        /\ p # parent[walk.cur]
        /\ p # walk.cur
        /\ walk.cur \notin above(p)
        /\ parent' = [parent EXCEPT ![walk.cur] = p]
        /\ walk' = [walk EXCEPT !.moves = @ + 1]
        /\ UNCHANGED <<props, cmpByValue, wait, call, ret, reportVars, settingsVars, videoVars>>

NextWalkStatic ==
    \/ Walk_call
    \/ Walk_fetch_parent
    \/ Walk_test_parent

NextWalk ==
    \/ NextWalkStatic
    \/ Reparent

\* The hierarchy changing under the call
SpecWalk == InitWalk /\ [][NextWalk]_vars

\* The hierarchy at rest; a call that can take a step takes it
SpecWalkStatic ==
    InitWalk /\ [][NextWalkStatic]_vars /\ WF_vars(NextWalkStatic)

\* -------------------------------------------------------------- report spec
\* No hierarchy is involved
NoTree ==
    /\ parent = [n \in Nodes |-> NoNode]
    /\ props = [n \in Nodes |-> Attrs(PyTrue, Missing)]
    /\ cmpByValue = FALSE
    /\ call = NoCall
    /\ ret = Ret0
    /\ walk = NoWalk
    /\ wait = NoWait

InitReport ==
    /\ NoTree
    /\ ReportLoaded
    /\ throwOnFailure \in BOOLEAN
    /\ testSettings = [n \in SettingNames |-> 0]
    /\ SettingsUntouched
    /\ NoVideo

\* What a call left behind, and what it added to the engine's report
AfterCall(api, fn, r) ==
    /\ steps < MaxCalls
    /\ steps' = steps + 1
    /\ entries' = r.entries
    /\ throwOnFailure' = r.throwOnFailure
    /\ fixates' = r.fixates
    /\ restores' = r.restores
    /\ rcall' = [api |-> api, fn |-> fn, level |-> NoLevel]
    /\ rret' = [exc |-> r.exc,
                emitted |-> SubSeq(r.entries, Len(entries) + 1, Len(r.entries)),
                fixated |-> r.fixates - fixates,
                restored |-> r.restores - restores]
    /\ UNCHANGED <<LOGLEVEL, testModule, captured, enables>>
    /\ UNCHANGED <<treeVars, settingsVars, videoVars>>

Call_set_level ==
    \E level \in LevelInputs :
        /\ steps < MaxCalls
        /\ steps' = steps + 1
        /\ LOGLEVEL' = set_level(level).LOGLEVEL
        /\ rcall' = [api |-> "report", fn |-> "set_level", level |-> level]
        /\ rret' = [NoReportRet EXCEPT !.exc = set_level(level).exc]
        /\ UNCHANGED <<entries, throwOnFailure, fixates, restores, testModule,
                       captured, enables>>
        /\ UNCHANGED <<treeVars, settingsVars, videoVars>>

Call_debug == AfterCall("report", "debug", debug(ReportSt))

Call_log == AfterCall("report", "log", log(ReportSt))

Call_warning == AfterCall("report", "warning", warning(ReportSt))

Call_fail == AfterCall("report", "fail", fail(ReportSt))

Call_fatal == AfterCall("report", "fatal", fatal(ReportSt))

Call_enable_loglevel_in_test_module ==
    /\ steps < MaxCalls
    /\ steps' = steps + 1
    /\ testModule' = enable_loglevel_in_test_module(ModuleBindings).module
    /\ captured' = enable_loglevel_in_test_module(ModuleBindings).globals
    /\ enables' = enables + 1
    /\ rcall' = [api |-> "report", fn |-> "enable_loglevel_in_test_module",
                 level |-> NoLevel]
    /\ rret' = NoReportRet
    /\ UNCHANGED <<LOGLEVEL, entries, throwOnFailure, fixates, restores>>
    /\ UNCHANGED <<treeVars, settingsVars, videoVars>>

\* A test script calling test.debug / log / warning / fail / fatal
Call_test ==
    \E fn \in ReportFns : AfterCall("test", fn, test_call(fn, ReportSt))

NextReport ==
    \/ Call_set_level
    \/ Call_debug
    \/ Call_log
    \/ Call_warning
    \/ Call_fail
    \/ Call_fatal
    \/ Call_enable_loglevel_in_test_module
    \/ Call_test

SpecReport == InitReport /\ [][NextReport]_vars

\* ------------------------------------------------------------ settings spec
InitSettings ==
    /\ NoTree
    /\ ReportLoaded
    /\ throwOnFailure = FALSE
    /\ \E have \in {SettingNames, {"waitForObjectTimeout"}} :
            testSettings \in [have -> SettingValues]
    /\ SettingsUntouched
    /\ NoVideo

\* test.log, called by _ctx_settings, writes to the engine's report
ReportAfter(s) ==
    /\ entries' = s.entries
    /\ fixates' = s.fixates
    /\ restores' = s.restores
    /\ throwOnFailure' = s.throwOnFailure
    /\ steps' = steps + 1
    /\ UNCHANGED <<LOGLEVEL, testModule, captured, enables, rcall, rret>>

\* with <name>(value): the context is entered
Enter ==
    \E name \in SettingNames, value \in SettingValues :
        LET r == _ctx_settings_enter(name, value, testSettings, ReportSt)
        IN  /\ steps < MaxCtxSteps
            /\ Len(ctxStack) < MaxOpen
            /\ testSettings' = r.ts
            /\ ctxStack' = IF r.body THEN Append(ctxStack, r.frame) ELSE ctxStack
            /\ sret' = [op |-> "enter", name |-> name, value |-> value,
                        exc |-> r.exc, body |-> r.body]
            /\ ReportAfter(r.s)
            /\ UNCHANGED <<treeVars, initialSettings, videoVars>>

\* The innermost context is left, its body having returned or raised
Leave(body_exc) ==
    LET frame == ctxStack[Len(ctxStack)]
        r == _ctx_settings_exit(frame, body_exc, testSettings, ReportSt)
    IN  /\ ctxStack # <<>>
        /\ steps < MaxCtxSteps
        /\ testSettings' = r.ts
        /\ ctxStack' = SubSeq(ctxStack, 1, Len(ctxStack) - 1)
        /\ sret' = [op |-> "exit", name |-> frame.name, value |-> frame.value,
                    exc |-> r.exc, body |-> TRUE]
        /\ ReportAfter(r.s)
        /\ UNCHANGED <<treeVars, initialSettings, videoVars>>

ExitNormal == Leave(NoExc)

ExitRaise == Leave("BodyError")

NextSettings ==
    \/ Enter
    \/ ExitNormal
    \/ ExitRaise

SpecSettings == InitSettings /\ [][NextSettings]_vars

\* --------------------------------------------------------------- video spec
InitVideo ==
    /\ NoTree
    /\ ReportLoaded
    /\ throwOnFailure = FALSE
    /\ testSettings = [n \in SettingNames |-> 0]
    /\ SettingsUntouched
    /\ results = [c \in ResultCategories |-> 0]
    /\ attachments \in [Files -> {"absent", "video"}]
    /\ capStack = <<>>
    /\ vret = NoCaptureStep

\* with video_capture(remove_on_success=...): the block is entered, as one of
\* at most MaxCaptures blocks of the test case. Next to the locals of the
\* generator the frame keeps what was there at entry.
Capture_enter ==
    \E remove_on_success \in BOOLEAN :
        /\ steps < MaxCaptures
        /\ steps' = steps + 1
        /\ capStack' = Append(capStack,
                [locals |-> video_capture_enter(remove_on_success, attachments,
                                                results),
                 entryFiles |-> {file \in Files : attachments[file] # "absent"},
                 entryResults |-> results])
        /\ vret' = [NoCaptureStep EXCEPT !.op = "enter",
                        !.remove_on_success = remove_on_success]
        /\ UNCHANGED <<results, attachments>>
        /\ UNCHANGED <<LOGLEVEL, entries, throwOnFailure, fixates, restores,
                       testModule, captured, enables, rcall, rret>>
        /\ UNCHANGED <<treeVars, settingsVars>>

\* The innermost block is left, its body having returned or raised
Capture_exit(body_exc) ==
    \E written \in {NoFile} \cup {file \in Files : endswith_mp4(file)
                                        /\ attachments[file] = "absent"} :
        LET frame == capStack[Len(capStack)]
            stopped == stopVideoCapture(attachments, written)
            r == video_capture_exit(frame.locals, stopped, results, ReportSt)
        IN  /\ capStack # <<>>
            /\ capStack' = SubSeq(capStack, 1, Len(capStack) - 1)
            /\ attachments' = r.att
            /\ vret' = [op |-> "exit",
                        remove_on_success |-> frame.locals.remove_on_success,
                        exc |-> body_exc,
                        entryFiles |-> frame.entryFiles,
                        replaced |-> {file \in Files : r.att[file] # stopped[file]}]
            /\ entries' = r.s.entries
            /\ fixates' = r.s.fixates
            /\ restores' = r.s.restores
            /\ throwOnFailure' = r.s.throwOnFailure
            /\ UNCHANGED <<LOGLEVEL, testModule, captured, enables, rcall, rret,
                           steps, results>>
            /\ UNCHANGED <<treeVars, settingsVars>>

Capture_exit_normal == Capture_exit(NoExc)

Capture_exit_raise == Capture_exit("BodyError")

\* All results counted so far
ResultsTotal(rc) ==
    rc["errors"] + rc["fatals"] + rc["xpasses"] + rc["fails"] + rc["warnings"]

\* The test script reports a result inside a block
Report_result ==
    \E c \in ResultCategories :
        /\ capStack # <<>>
        /\ ResultsTotal(results) < MaxResults
        /\ results' = [results EXCEPT ![c] = @ + 1]
        /\ UNCHANGED <<attachments, capStack, vret>>
        /\ UNCHANGED <<treeVars, reportVars, settingsVars>>

\* Something else than the capture at hand attaches a file meanwhile
Attach_file ==
    \E file \in Files :
        /\ capStack # <<>>
        /\ attachments[file] = "absent"
        /\ attachments' = [attachments EXCEPT
                ![file] = IF endswith_mp4(file) THEN "video" ELSE "image"]
        /\ UNCHANGED <<results, capStack, vret>>
        /\ UNCHANGED <<treeVars, reportVars, settingsVars>>

NextVideo ==
    \/ Capture_enter
    \/ Capture_exit_normal
    \/ Capture_exit_raise
    \/ Report_result
    \/ Attach_file

SpecVideo == InitVideo /\ [][NextVideo]_vars

\* ---------------------------------------------------------------- wait spec
\* The engine has the objectNotFoundDebugging setting, switched on, or is a
\* version without it
InitWait ==
    /\ NoTree
    /\ ReportLoaded
    /\ throwOnFailure = FALSE
    /\ \E have \in {{"objectNotFoundDebugging"}, {}} :
            testSettings = [n \in have |-> 1]
    /\ SettingsUntouched
    /\ NoVideo

\* The settings and the report after a step of the decorator's context
DecoratorAfter(ts, stack, s) ==
    /\ testSettings' = ts
    /\ ctxStack' = stack
    /\ entries' = s.entries
    /\ fixates' = s.fixates
    /\ restores' = s.restores
    /\ throwOnFailure' = s.throwOnFailure
    /\ UNCHANGED <<LOGLEVEL, testModule, captured, enables, rcall, rret, steps>>
    /\ UNCHANGED <<initialSettings, sret>>
    /\ UNCHANGED <<parent, props, cmpByValue, call, ret, walk, videoVars>>

\* @objectNotFoundDebugging(False) around _wait_for_any_object: entered
\* when the function is called
Wait_call(lookup_function) ==
    \E names \in NameLists, timeout \in Timeouts :
        LET r == _ctx_settings_enter("objectNotFoundDebugging", 0, testSettings,
                                     ReportSt)
        IN  /\ wait.pc = "idle"
            /\ wait' = IF r.exc # NoExc
                       THEN wait_refused(wait_start(lookup_function, names,
                                                    timeout), r.exc)
                       ELSE wait_start(lookup_function, names, timeout)
            /\ DecoratorAfter(r.ts,
                              IF r.body THEN Append(ctxStack, r.frame)
                              ELSE ctxStack,
                              r.s)

Call_wait_for_any_object == Wait_call("waitForObject")

Call_wait_for_any_object_exists == Wait_call("waitForObjectExists")

\* A step of the call; the context is left when the call returns or raises
Wait_step(w) ==
    /\ wait' = w
    /\ IF w.pc = "done"
       THEN LET r == _ctx_settings_exit(ctxStack[Len(ctxStack)], w.exc,
                                        testSettings, ReportSt)
            IN  DecoratorAfter(r.ts, SubSeq(ctxStack, 1, Len(ctxStack) - 1), r.s)
       ELSE DecoratorAfter(testSettings, ctxStack, ReportSt)

Wait_lookup ==
    \E answer \in LookupAnswers, dt \in 0..1 :
        /\ wait.pc = "round"
        /\ wait.idx <= Len(wait.names)
        /\ Wait_step(wait_lookup(wait, answer, dt))

Wait_round_end ==
    /\ wait.pc = "round"
    /\ wait.idx > Len(wait.names)
    /\ Wait_step(wait_round_end(wait))

NextWait ==
    \/ Call_wait_for_any_object
    \/ Call_wait_for_any_object_exists
    \/ Wait_lookup
    \/ Wait_round_end

SpecWait == InitWait /\ [][NextWait]_vars

\* ===================================================== properties checked
\* The hierarchy, read off the parent pointers alone
RECURSIVE AncestorAt(_, _)
AncestorAt(n, k) ==
    IF n = NoNode THEN NoNode
    ELSE IF k = 0 THEN n
    ELSE AncestorAt(parent[n], k - 1)

StrictAncestors(n) == {AncestorAt(n, k) : k \in 1..MaxNodes} \ {NoNode}

\* Edges from root down to n; 0 when n is not a strict descendant of root
EdgesBelow(root, n) ==
    IF root \in StrictAncestors(n)
    THEN CHOOSE k \in 1..MaxNodes : AncestorAt(n, k) = root
    ELSE 0

StrictDescendants(root) == {n \in Nodes : root \in StrictAncestors(n)}

AncestorOrSelf(a, n) == a = n \/ a \in StrictAncestors(n)

PositionIn(seq, x) == CHOOSE i \in 1..Len(seq) : seq[i] = x

\* a comes before b in the depth-first pre-order: a is above b, or they
\* branch at some node c, a below the earlier child of c
Precedes(a, b) ==
    \/ a \in StrictAncestors(b)
    \/ \E c \in Nodes : \E ca, cb \in Nodes :
           /\ ca # cb /\ parent[ca] = c /\ parent[cb] = c
           /\ AncestorOrSelf(ca, a) /\ AncestorOrSelf(cb, b)
           /\ PositionIn(object_children(c), ca) < PositionIn(object_children(c), cb)

InPreOrder(seq) == \A i, j \in 1..Len(seq) : i < j => Precedes(seq[i], seq[j])

Elems(seq) == {seq[i] : i \in 1..Len(seq)}

\* The selector a call matches with (None defaults to {} in find, siblings)
EffSel == IF call.op \in {"find", "siblings"} /\ call.selector = NoneSel
          THEN <<>> ELSE call.selector

Matches(n) == _is_matching(n, EffSel).exc = NoExc /\ _is_matching(n, EffSel).bool
Raises(n) == _is_matching(n, EffSel).exc # NoExc

Root == call.arg.ref

ExampleTree == parent[2] = 1 /\ parent[3] = 1 /\ parent[4] = 2

\* C1: find(root, {}, max_depth=None) returns exactly the strict descendants
\* of root, each once, in depth-first pre-order; never root itself.
C1_FindAllPreOrder ==
    (call.op = "find" /\ call.selector = <<>> /\ call.max_depth.inf
        /\ Root # NoNode)
    => /\ ret.exc = NoExc /\ ~ret.none
       /\ Elems(ret.val) = StrictDescendants(Root)
       /\ Len(ret.val) = Cardinality(StrictDescendants(Root))
       /\ InPreOrder(ret.val)
       /\ Root \notin Elems(ret.val)

C1_Witness ==
    /\ call.op = "find" /\ call.selector = <<>> /\ call.max_depth.inf
    /\ ExampleTree /\ Root = 1
    /\ ret.val = <<2, 4, 3>>

\* C2: for d >= 1, find(root, S, max_depth=d) returns exactly the nodes
\* matching S that lie 1..d edges below root, ordered as in the pre-order
\* traversal; a predicate failing on such a node fails the call.
InRange(n, d) == 1 <= EdgesBelow(Root, n) /\ EdgesBelow(Root, n) <= d

C2_FindBounded ==
    (call.op = "find" /\ ~call.max_depth.inf /\ call.max_depth.n >= 1
        /\ Root # NoNode)
    => LET d == call.max_depth.n
       IN IF \E n \in Nodes : InRange(n, d) /\ Raises(n)
          THEN ret.exc # NoExc
          ELSE /\ ret.exc = NoExc /\ ~ret.none
               /\ Elems(ret.val) = {n \in Nodes : InRange(n, d) /\ Matches(n)}
               /\ InPreOrder(ret.val)

C2_Witness ==
    /\ call.op = "find" /\ call.selector = <<>> /\ call.max_depth = DepthOf(1)
    /\ ExampleTree /\ Root = 1
    /\ ret.val = <<2, 3>>

\* C3: find with max_depth <= 0 returns the empty tuple, never None, for a
\* handle or a symbolic name alike, and fetches no children.
C3_FindNonPositiveDepth ==
    (call.op = "find" /\ ~call.max_depth.inf /\ call.max_depth.n <= 0)
    => /\ ret.exc = NoExc /\ ~ret.none
       /\ ret.val = <<>>
       /\ ret.fetched = <<>>

C3_Witness ==
    /\ call.op = "find" /\ call.max_depth = DepthOf(0)
    /\ call.arg = SymName(NoNode)
    /\ call.selector = <<Fn("text", "one")>>
    /\ ret.exc = NoExc /\ ret.val = <<>>

\* C4 as stated: depth 0 designates the direct children, so a node is
\* eligible for find(root, S, max_depth=d) iff it lies at most d levels
\* below root's direct children.
C4_DepthZeroIsChildren ==
    (call.op = "find" /\ ~call.max_depth.inf /\ Root # NoNode
        /\ \A n \in Nodes : ~Raises(n))
    => \A n \in Nodes :
           n \in Elems(ret.val)
           <=> (Matches(n) /\ EdgesBelow(Root, n) >= 1
                   /\ EdgesBelow(Root, n) - 1 <= call.max_depth.n)

\* C4, amended: depth 1 designates the direct children: a node is eligible
\* for find(root, S, max_depth=d) iff it lies between 1 and d edges below
\* root, that is at most d - 1 levels below root's direct children; no
\* node is eligible when d <= 0.
C4_DepthOneIsChildren ==
    (call.op = "find" /\ ~call.max_depth.inf /\ Root # NoNode
        /\ \A n \in Nodes : ~Raises(n))
    => \A n \in Nodes :
           n \in Elems(ret.val)
           <=> (Matches(n) /\ EdgesBelow(Root, n) >= 1
                   /\ EdgesBelow(Root, n) <= call.max_depth.n)

C4_Witness ==
    /\ call.op = "find" /\ call.max_depth = DepthOf(1) /\ Root # NoNode
    /\ ret.exc = NoExc /\ ret.val # <<>>
    /\ \E n \in Nodes : EdgesBelow(Root, n) = 2 /\ Matches(n)
                            /\ n \notin Elems(ret.val)

\* C5: find_ancestor(n, S) returns None iff no strict ancestor of n
\* matches S, otherwise the nearest matching strict ancestor, never n; a
\* predicate failing on an ancestor met before any match fails the call.
C5_FindAncestorNearest ==
    (call.op = "find_ancestor" /\ Root # NoNode)
    => LET hits == {k \in 1..MaxNodes :
                       /\ AncestorAt(Root, k) # NoNode
                       /\ Matches(AncestorAt(Root, k)) \/ Raises(AncestorAt(Root, k))}
       IN IF hits = {}
          THEN ret.exc = NoExc /\ ret.none /\ ret.node = NoNode
          ELSE LET k == CHOOSE h \in hits : \A g \in hits : h <= g
                   a == AncestorAt(Root, k)
               IN IF Raises(a) THEN ret.exc # NoExc
                  ELSE /\ ret.exc = NoExc /\ ~ret.none
                       /\ ret.node = a /\ ret.node # Root

C5_Witness ==
    /\ call.op = "find_ancestor" /\ Root # NoNode /\ ret.exc = NoExc
    /\ AncestorAt(Root, 3) # NoNode
    /\ ~Matches(AncestorAt(Root, 1))
    /\ Matches(AncestorAt(Root, 2)) /\ Matches(AncestorAt(Root, 3))
    /\ Matches(Root)
    /\ ret.node = AncestorAt(Root, 2)

\* C6: for a node n with a parent, siblings(n, S) returns, in the parent's
\* child order, exactly the parent's children other than n that match S;
\* n itself is never in the result.
C6_SiblingsExcludeSelf ==
    (call.op = "siblings" /\ Root # NoNode /\ parent[Root] # NoNode
        /\ \A n \in Nodes : ~Raises(n))
    => LET Other(x) == x # Root /\ Matches(x)
       IN /\ ret.exc = NoExc /\ ~ret.none
          /\ ret.val = SelectSeq(object_children(parent[Root]), Other)
          /\ Root \notin Elems(ret.val)

\* C7: when the parent has two distinct children that compare equal by
\* value, siblings(x, {}) for either of them contains the other one and
\* does not contain x.
C7_SiblingsRemoveByIdentity ==
    (call.op = "siblings" /\ EffSel = <<>> /\ Root # NoNode
        /\ parent[Root] # NoNode)
    => \A y \in Nodes :
           (y # Root /\ parent[y] = parent[Root] /\ ObjEq(y, Root))
           => (y \in Elems(ret.val) /\ Root \notin Elems(ret.val))

\* C8: children(p, S) returns exactly the immediate children of p that
\* match S, in their original order, never a deeper descendant; a
\* predicate failing on a child fails the call.
C8_ChildrenImmediateOnly ==
    (call.op = "children" /\ Root # NoNode)
    => IF \E c \in Nodes : parent[c] = Root /\ Raises(c)
       THEN ret.exc # NoExc
       ELSE /\ ret.exc = NoExc /\ ~ret.none
            /\ ret.val = SelectSeq(object_children(Root), Matches)
            /\ \A i \in 1..Len(ret.val) : parent[ret.val[i]] = Root

C8_Witness ==
    /\ call.op = "children" /\ Root # NoNode /\ ret.exc = NoExc
    /\ ret.val # <<>>
    /\ Len(ret.val) < Len(object_children(Root))
    /\ \E g \in Nodes : EdgesBelow(Root, g) = 2 /\ Matches(g)

\* The type name a "type" pair is compared with: the name itself when it
\* holds no separator, otherwise its prefix up to the separator after
\* which no further separator follows
StrippedTypeName(n) ==
    LET s == className(n)
    IN IF \A i \in 1..Len(s) : s[i] # Sep THEN s
       ELSE LET cut == CHOOSE i \in 1..Len(s) :
                           s[i] = Sep /\ \A j \in (i + 1)..Len(s) : s[j] # Sep
            IN [i \in 1..(cut - 1) |-> s[i]]

\* One pair of a selector, taken alone, is satisfied by node n
PairSatisfied(n, pair) ==
    IF pair.key = "type" THEN ~pair.fn /\ StrippedTypeName(n) = pair.val
    ELSE IF pair.fn
    THEN props[n].attr[pair.key] # Missing
             /\ ApplyFunction(pair.val, props[n].attr[pair.key]) = PyTrue
    ELSE props[n].attr[pair.key] # Missing /\ props[n].attr[pair.key] = pair.val

Reported == ret.exc = NoExc /\ ret.bool

\* C9: the matcher is a logical AND over the selector's pairs: the node is
\* reported to match iff every pair is satisfied (type pair: stripped type
\* name equals expected; literal pair: property present and equal;
\* predicate pair: property present and predicate true); the empty
\* selector matches every node.
C9_MatcherIsConjunction ==
    call.op = "_is_matching"
    => /\ Reported <=> \A i \in 1..Len(call.selector) :
                           PairSatisfied(Root, call.selector[i])
       /\ call.selector = <<>> => Reported

C9_Witness ==
    /\ call.op = "_is_matching" /\ Reported
    /\ Len(call.selector) = 3
    /\ call.selector[1].fn /\ call.selector[3].key = "type"
    /\ Len(className(Root)) = 3

\* C10: with a pair ("type", T) in the selector, a node whose stripped type
\* name differs from T is never reported as a match, whatever the other
\* pairs and the node's properties are.
C10_TypeMismatchNeverMatches ==
    call.op = "_is_matching"
    => \A i \in 1..Len(call.selector) :
           (call.selector[i].key = "type"
               /\ (call.selector[i].fn \/ StrippedTypeName(Root) # call.selector[i].val))
           => ~Reported

C10_Witness ==
    /\ call.op = "_is_matching" /\ ~Reported /\ ret.exc = NoExc
    /\ Len(call.selector) = 3
    /\ call.selector[3] = Lit("type", <<"Button">>)
    /\ StrippedTypeName(Root) = <<"Button", Sep>>
    /\ PairSatisfied(Root, call.selector[1]) /\ PairSatisfied(Root, call.selector[2])

\* The type name up to its first separator
StripFirst(s) ==
    IF \A i \in 1..Len(s) : s[i] # Sep THEN s
    ELSE LET cut == CHOOSE i \in 1..Len(s) :
                        s[i] = Sep /\ \A j \in 1..(i - 1) : s[j] # Sep
         IN [i \in 1..(cut - 1) |-> s[i]]

SepCount(s) == Cardinality({i \in 1..Len(s) : s[i] = Sep})

OnlyTypePair ==
    /\ call.op = "_is_matching" /\ Len(call.selector) = 1
    /\ call.selector[1].key = "type" /\ ~call.selector[1].fn

\* C11 as stated: the type name is stripped at the first occurrence of the
\* separator, so a name holding it more than once is compared by the text
\* before the first occurrence.
C11_StrippedAtFirstSeparator ==
    OnlyTypePair
    => (Reported <=> StripFirst(className(Root)) = call.selector[1].val)

\* C11, amended: the type name is stripped at the last occurrence of the
\* separator, so a name holding it more than once is compared by the text
\* before the last occurrence.
C11_StrippedAtLastSeparator ==
    OnlyTypePair
    => (Reported <=> StrippedTypeName(Root) = call.selector[1].val)

C11_Witness ==
    /\ OnlyTypePair /\ Reported
    /\ SepCount(className(Root)) = 2
    /\ call.selector[1].val = <<"Button", Sep>>

\* Matching node n with the call's selector invokes a function that
\* returns a non-boolean: some function pair on a property n has, all
\* pairs before it satisfied
NonBoolAt(n, i) ==
    /\ EffSel[i].fn /\ EffSel[i].key # "type"
    /\ props[n].attr[EffSel[i].key] # Missing
    /\ ApplyFunction(EffSel[i].val, props[n].attr[EffSel[i].key])
           \notin {PyTrue, PyFalse}
    /\ \A j \in 1..(i - 1) : PairSatisfied(n, EffSel[j])

NonBoolInvoked(n) == \E i \in 1..Len(EffSel) : NonBoolAt(n, i)

\* The nodes a call hands to the matcher unless it has failed before
HandedToMatcher(n) ==
    CASE call.op = "children" -> parent[n] = Root
      [] call.op = "find" ->
             /\ EdgesBelow(Root, n) >= 1
             /\ call.max_depth.inf \/ EdgesBelow(Root, n) <= call.max_depth.n
      [] call.op = "find_ancestor" ->
             \E k \in 1..MaxNodes :
                 /\ AncestorAt(Root, k) = n
                 /\ \A j \in 1..(k - 1) : ~Matches(AncestorAt(Root, j))
      [] call.op = "siblings" -> parent[n] = parent[Root] /\ ~ObjEq(n, Root)
      [] OTHER -> FALSE

TreeCallResolved ==
    /\ call.op \in {"children", "find", "find_ancestor", "siblings"}
    /\ Root # NoNode /\ EffSel # NoneSel

NoResult(r) == r.val = <<>> /\ r.node = NoNode /\ ~r.none

\* C12 as stated: when the matcher invokes a predicate that returns a
\* non-boolean, the calling operation fails with a TypeError instead of
\* returning a result.
C12_NonBoolRaisesTypeError ==
    (TreeCallResolved /\ \E n \in Nodes : HandedToMatcher(n) /\ NonBoolInvoked(n))
    => ret.exc = "TypeError" /\ NoResult(ret)

\* C12, amended: when the matcher invokes a predicate that returns a
\* non-boolean, the calling operation (children, find, find_ancestor,
\* siblings) fails with a RuntimeError instead of returning a result; the
\* value is never coerced to true or false.
C12_NonBoolRaisesRuntimeError ==
    TreeCallResolved
    => /\ (\E n \in Nodes : HandedToMatcher(n) /\ NonBoolInvoked(n))
              => ret.exc = "RuntimeError" /\ NoResult(ret)
       /\ ret.exc = "RuntimeError" => \E n \in Nodes : NonBoolInvoked(n)

C12_Witness ==
    /\ TreeCallResolved /\ call.op = "find" /\ call.max_depth = DepthOf(2)
    /\ ret.exc = "RuntimeError"
    /\ \E n \in Nodes : EdgesBelow(Root, n) = 2 /\ NonBoolInvoked(n)
    /\ \A n \in Nodes : EdgesBelow(Root, n) = 1 => ~NonBoolInvoked(n)

\* Pair i of the selector names a property the node does not have
MissingAt(n, i) ==
    call.selector[i].key # "type" /\ props[n].attr[call.selector[i].key] = Missing

\* C13: a selector key (other than "type") naming a property the node
\* does not have makes the node a non-match and does not raise, whether
\* it expects a literal or a predicate, and its predicate is not invoked:
\* no match is reported, and unless a predicate of an earlier pair has
\* raised on a non-boolean result (C12) the matcher returns false.
C13_MissingPropertyIsNonMatch ==
    call.op = "_is_matching"
    => \A i \in 1..Len(call.selector) :
           MissingAt(Root, i)
           => /\ ~Reported
              /\ (\A j \in 1..(i - 1) : ~NonBoolAt(Root, j))
                     => ret.exc = NoExc /\ ~ret.bool

C13_Witness ==
    /\ call.op = "_is_matching" /\ ret.exc = NoExc /\ ~ret.bool
    /\ Len(call.selector) = 3
    /\ call.selector[3] = Fn("text", "one") /\ MissingAt(Root, 3)
    /\ PairSatisfied(Root, call.selector[1]) /\ PairSatisfied(Root, call.selector[2])

\* The orderings of the call's selector
Orderings ==
    {q \in [1..Len(call.selector) -> Elems(call.selector)] :
        Elems(q) = Elems(call.selector)}

\* C14 as stated: the outcome of matching (match, no match, or error) is
\* the same for every ordering of the selector's pairs.
C14_OutcomeOrderIrrelevant ==
    call.op = "_is_matching"
    => \A q \in Orderings :
           _is_matching(Root, q) = [exc |-> ret.exc, bool |-> ret.bool]

\* C14, amended: whether a node is reported as a match is the same for
\* every ordering of the selector's pairs; a non-match is reported as no
\* match or as the contract-violation error, depending on the ordering.
C14_MatchOrderIrrelevant ==
    call.op = "_is_matching"
    => \A q \in Orderings :
           /\ (_is_matching(Root, q) = MatchTrue) <=> Reported
           /\ _is_matching(Root, q) \in {MatchTrue, MatchFalse, MatchRaise("RuntimeError")}

C14_Witness ==
    /\ call.op = "_is_matching" /\ ret.exc = "RuntimeError"
    /\ Len(call.selector) = 3
    /\ \E q \in Orderings : _is_matching(Root, q) = MatchFalse

TreeCall == call.op \in {"children", "find", "find_ancestor", "siblings"}

NonPositiveFind == call.op = "find" /\ ~call.max_depth.inf /\ call.max_depth.n <= 0

\* C15 as stated: every public operation resolves its argument at entry
\* whatever its other arguments are, so a symbolic name whose lookup fails
\* makes each of them propagate the lookup failure.
C15_AlwaysResolvedAtEntry ==
    (TreeCall /\ call.arg = SymName(NoNode))
    => ret.exc = "LookupError" /\ ret.resolved = <<call.arg>>

\* C15, amended: children, find_ancestor and siblings always, and find
\* when max_depth is None or positive, resolve their reference-or-handle
\* argument at entry: a symbolic name whose lookup fails propagates the
\* lookup failure before anything is fetched, a symbolic name is looked up
\* once, and a handle is used unchanged without any lookup; find with
\* max_depth <= 0 returns () without resolving its argument.
C15_ResolvedAtEntryUnlessNoDepth ==
    TreeCall
    => IF NonPositiveFind THEN ret = Ret0
       ELSE /\ call.arg = SymName(NoNode)
                  => /\ ret.exc = "LookupError" /\ NoResult(ret)
                     /\ ret.fetched = <<>> /\ ret.resolved = <<call.arg>>
            /\ (call.arg.isName /\ Root # NoNode)
                  => ret.exc # "LookupError" /\ ret.resolved = <<call.arg>>
            /\ ~call.arg.isName
                  => ret.exc # "LookupError" /\ ret.resolved = <<>>
            /\ (Root # NoNode /\ call.op \in {"children", "find"})
                  => ret.fetched # <<>> /\ ret.fetched[1] = Root

C15_Witness ==
    /\ call.op = "find" /\ call.max_depth = DepthOf(1)
    /\ call.arg = SymName(NoNode)
    /\ ret.exc = "LookupError" /\ ret.resolved = <<SymName(NoNode)>>

\* ------------------------------------------------------- report properties
\* The level each function reports at, and the engine entry it stands for
LevelOf(fn) ==
    CASE fn = "debug" -> 10
      [] fn = "log" -> 20
      [] fn = "warning" -> 30
      [] fn = "fail" -> 40
      [] fn = "fatal" -> 50

EntryOf(fn) ==
    IF fn = "debug" THEN [fn |-> "log", debug |-> TRUE]
    ELSE [fn |-> fn, debug |-> FALSE]

ReportCall == rcall.api = "report" /\ rcall.fn \in ReportFns

\* What a call at the level of fn must have forwarded under the LOGLEVEL
Gated(fn) == IF LOGLEVEL <= LevelOf(fn) THEN <<EntryOf(fn)>> ELSE <<>>

\* C16: with DEBUG=10 < LOG=20 < WARNING=30 < FAIL=40 < FATAL=50, after any
\* sequence of set_level calls a call of report.debug/log/warning/fail/fatal
\* forwards exactly one entry to the engine when LOGLEVEL is lower than or
\* equal to the function's level and nothing otherwise; LOGLEVEL starts at
\* LOG, so a debug call made before any set_level forwards nothing.
C16_LevelGate ==
    /\ <<DEBUG, LOG, WARNING, FAIL, FATAL>> = <<10, 20, 30, 40, 50>>
    /\ steps = 0 => LOGLEVEL = LOG
    /\ ReportCall => rret.emitted = Gated(rcall.fn)
    /\ ReportCall =>
            rret.emitted = SubSeq(entries, Len(entries) - Len(rret.emitted) + 1,
                                  Len(entries))
    /\ ReportCall /\ rcall.fn = "debug" /\ steps = 1 => rret.emitted = <<>>

\* A debug call forwarded after set_level lowered the level to DEBUG
C16_Witness ==
    /\ ReportCall
    /\ rcall.fn = "debug"
    /\ LOGLEVEL = DEBUG
    /\ steps >= 2
    /\ rret.emitted = <<EntryOf("debug")>>

\* C17: set_level accepts an int or one of the names FATAL, FAIL, WARN,
\* WARNING, LOG, DEBUG and sets LOGLEVEL to it; an unknown string raises
\* ValueError, a value that is neither int nor str raises TypeError, and in
\* both error cases LOGLEVEL is left as it was.
C17_SetLevelContract ==
    [][rcall'.fn = "set_level" /\ steps' # steps =>
        LET level == rcall'.level
        IN  CASE level.kind = "int" ->
                    rret'.exc = NoExc /\ LOGLEVEL' = level.i
              [] level.kind = "str" /\ level.s \in
                    {"FATAL", "FAIL", "WARN", "WARNING", "LOG", "DEBUG"} ->
                    /\ rret'.exc = NoExc
                    /\ LOGLEVEL' = (IF level.s = "WARN" THEN 30
                                    ELSE LevelOf(
                                        CASE level.s = "FATAL" -> "fatal"
                                          [] level.s = "FAIL" -> "fail"
                                          [] level.s = "WARNING" -> "warning"
                                          [] level.s = "LOG" -> "log"
                                          [] level.s = "DEBUG" -> "debug"))
              [] level.kind = "str" ->
                    rret'.exc = "ValueError" /\ LOGLEVEL' = LOGLEVEL
              [] OTHER ->
                    rret'.exc = "TypeError" /\ LOGLEVEL' = LOGLEVEL]_vars

\* An unknown name was refused after an earlier call had changed the level
C17_Witness ==
    /\ rcall.fn = "set_level"
    /\ rcall.level.kind = "str"
    /\ rret.exc = "ValueError"
    /\ LOGLEVEL # LOG

FatalCall == rcall.api = "report" /\ rcall.fn = "fatal"

Aborted ==
    /\ rret.emitted = <<EntryOf("fatal")>>
    /\ throwOnFailure
    /\ rret.exc = "TestFailure"

\* C18 as stated: in every reachable log-level state a call of report.fatal
\* adds a fatal entry, with throwOnFailure set before the engine's fatal is
\* called, so that the call does not return normally.
C18_FatalAlwaysAborts == FatalCall => Aborted

\* C18: a call of report.fatal made while LOGLEVEL is FATAL or lower adds a
\* fatal entry, with throwOnFailure set before the engine's fatal is called,
\* so that the call does not return normally; made while LOGLEVEL is above
\* FATAL it adds nothing, leaves throwOnFailure alone and returns.
C18_FatalAbortsWhenEnabled ==
    FatalCall =>
        IF LOGLEVEL <= 50
        THEN Aborted
        ELSE rret.emitted = <<>> /\ rret.exc = NoExc

\* fatal as the first call made, at the LOGLEVEL the module starts with
C18_Witness ==
    /\ FatalCall
    /\ steps = 1
    /\ Aborted
    /\ rret.fixated = 1

TestCall == rcall.api = "test" /\ rcall.fn \in ReportFns

\* C19: once enable_loglevel_in_test_module has been called, however many
\* times, test.debug/log/warning/fail/fatal are the report functions and the
\* captured engine functions are still the engine's: a call of test.<fn>
\* forwards exactly one entry through the engine function when LOGLEVEL
\* enables its level and nothing otherwise, and never re-enters the wrapper.
C19_EnabledTestModuleObeysLevel ==
    /\ enables >= 1 =>
            /\ testModule = [fn \in ReportFns |-> "wrapper"]
            /\ captured = [fn \in EngineFns |-> "engine"]
    /\ enables >= 1 /\ TestCall =>
            /\ rret.exc \notin {"RecursionError", "AttributeError"}
            /\ rret.emitted = Gated(rcall.fn)

\* test.log called after the module was enabled twice
C19_Witness ==
    /\ enables >= 2
    /\ TestCall
    /\ rcall.fn = "log"
    /\ rret.emitted = <<EntryOf("log")>>

\* ----------------------------------------------------- settings properties
\* The open contexts on one setting, outermost first
OpenOn(name) == {i \in 1..Len(ctxStack) : ctxStack[i].name = name}

Innermost(name) == CHOOSE i \in OpenOn(name) : \A j \in OpenOn(name) : j <= i

\* What a setting must hold: the value asked for by the innermost context
\* still open on it, and its initial value when none is open
Due(name) ==
    IF OpenOn(name) = {}
    THEN initialSettings[name]
    ELSE ctxStack[Innermost(name)].value

\* C20: a settings context manager sets its test setting for the time of the
\* block: once entered the named setting has the requested value, and once
\* left, the body having returned or raised, it has the value it had at
\* entry; so for any nesting, also on one setting, every setting holds the
\* value of the innermost context open on it or else its initial value,
\* which all settings have again once every context is left, and no setting
\* other than the named one changes.
C20_SettingsFollowOpenContexts ==
    /\ DOMAIN testSettings = DOMAIN initialSettings
    /\ \A name \in DOMAIN testSettings : testSettings[name] = Due(name)
    /\ ctxStack = <<>> => testSettings = initialSettings
    /\ sret.op = "enter" /\ sret.body => testSettings[sret.name] = sret.value

\* A context nested in another on the same setting was left by an exception,
\* and the setting is back at the outer context's value
C20_Witness ==
    /\ sret.op = "exit"
    /\ sret.exc = "BodyError"
    /\ Len(ctxStack) = 1
    /\ ctxStack[1].name = sret.name
    /\ ctxStack[1].value # sret.value
    /\ ctxStack[1].value # initialSettings[sret.name]
    /\ testSettings[sret.name] = ctxStack[1].value

\* C21: entering a settings context manager for a setting that testSettings
\* does not have raises SquishCapabilityError; the body of the with-block is
\* not run, no context is opened, no test setting is modified and nothing is
\* logged.
C21_MissingSettingIsRefused ==
    [][sret'.op = "enter" /\ steps' # steps
            /\ sret'.name \notin DOMAIN testSettings =>
        /\ sret'.exc = "SquishCapabilityError"
        /\ ~sret'.body
        /\ testSettings' = testSettings
        /\ ctxStack' = ctxStack
        /\ entries' = entries]_vars

\* The refusal happened inside an open context that had changed a setting
C21_Witness ==
    /\ sret.op = "enter"
    /\ sret.exc = "SquishCapabilityError"
    /\ sret.name \notin DOMAIN testSettings
    /\ ctxStack # <<>>
    /\ testSettings # initialSettings

\* A call that ran one of the report functions, directly or through test
WrapperCall == ReportCall \/ (TestCall /\ testModule[rcall.fn] = "wrapper")

\* C27: every fixateResultContext(1) issued by debug/log/warning/fail/fatal
\* is followed by exactly one restoreResultContext(), also when the engine's
\* logging call raises: a call whose level is enabled issues one of each, a
\* call whose level is disabled issues neither, and after any sequence of
\* calls as many restores as fixates have been issued.
C27_FixateRestoreBalanced ==
    /\ fixates = restores
    /\ WrapperCall =>
            /\ rret.fixated = (IF LOGLEVEL <= LevelOf(rcall.fn) THEN 1 ELSE 0)
            /\ rret.restored = rret.fixated
    /\ ~WrapperCall => rret.fixated = 0 /\ rret.restored = 0

\* fatal raised out of the engine after an earlier call had reported
C27_Witness ==
    /\ FatalCall
    /\ rret.exc = "TestFailure"
    /\ rret.fixated = 1
    /\ rret.restored = 1
    /\ fixates >= 2

\* ---------------------------------------------------- traversal properties
\* The nodes find may expand under max_depth d: root and the descendants
\* fewer than d edges below it
Expandable(n, d) ==
    n = Root \/ (1 <= EdgesBelow(Root, n) /\ EdgesBelow(Root, n) < d)

\* C24: during find(root, S, max_depth=d) with d >= 1 the children are
\* fetched only of root and of descendants fewer than d edges below root,
\* never of a node at the depth limit, of no node twice, and, when the call
\* returns, of each of those nodes once.
C24_ChildrenFetchedBelowLimit ==
    (call.op = "find" /\ ~call.max_depth.inf /\ call.max_depth.n >= 1
        /\ Root # NoNode)
    => LET d == call.max_depth.n
       IN /\ \A i \in 1..Len(ret.fetched) : Expandable(ret.fetched[i], d)
          /\ \A i, j \in 1..Len(ret.fetched) :
                i # j => ret.fetched[i] # ret.fetched[j]
          /\ \A n \in Nodes : EdgesBelow(Root, n) >= d => n \notin Elems(ret.fetched)
          /\ ret.exc = NoExc =>
                Elems(ret.fetched) = {n \in Nodes : Expandable(n, d)}

\* Depth 2 on the example hierarchy: node 4, two edges down, is reported
\* and its children are not fetched
C24_Witness ==
    /\ call.op = "find" /\ call.selector = <<>> /\ call.max_depth = DepthOf(2)
    /\ ExampleTree /\ Root = 1
    /\ ret.exc = NoExc
    /\ 4 \in Elems(ret.val)
    /\ ret.fetched = <<1, 2, 3>>
    /\ 4 \notin Elems(ret.fetched)

WalkCall == call.op = "find_ancestor"

WalkDone == WalkCall /\ walk.pc = "done"

LastVisited == walk.visited[Len(walk.visited)]

\* C25: on a finite acyclic hierarchy at rest find_ancestor(n, S) terminates:
\* the walk applies the matcher to the strict ancestors of n in upward order,
\* to none of them twice, and ends at the first ancestor that matches (or on
\* which a predicate fails), or with None once the node without parent has
\* been passed.
C25_AncestorWalkTerminates ==
    /\ [](WalkCall =>
            \A i \in 1..Len(walk.visited) :
                walk.visited[i] # NoNode /\ walk.visited[i] = AncestorAt(Root, i))
    /\ [](WalkDone /\ Root # NoNode =>
            /\ \A i \in 1..(Len(walk.visited) - 1) :
                    ~Matches(walk.visited[i]) /\ ~Raises(walk.visited[i])
            /\ IF ret.exc # NoExc THEN Raises(LastVisited)
               ELSE IF ret.none
               THEN /\ Elems(walk.visited) = StrictAncestors(Root)
                    /\ \A a \in StrictAncestors(Root) : ~Matches(a)
               ELSE ret.node = LastVisited /\ Matches(ret.node))
    /\ (WalkCall ~> walk.pc = "done")

\* The walk passed three ancestors, none matching, and answered None
C25_Witness ==
    /\ WalkDone
    /\ Len(walk.visited) = 3
    /\ ret.exc = NoExc
    /\ ret.none

\* C26: find_ancestor only ever returns a node on which the selector was
\* evaluated and found matching, also when the hierarchy changes the parent
\* of the current node between the two parent fetches of one step.
C26_ReturnsTheNodeMatched ==
    (WalkDone /\ ret.exc = NoExc /\ ~ret.none)
    => /\ ret.node = walk.matched
       /\ ret.node \in Elems(walk.visited)
       /\ Matches(ret.node)

\* --------------------------------------------------------- video properties
\* Results that count as failures: errors, fatals, xpasses and fails
Failures(rc) ==
    LET Count(c) == rc[c]
    IN  Count("errors") + Count("fatals") + Count("xpasses") + Count("fails")

\* C23: when a video_capture block is left, the body having returned or
\* raised, videos are replaced with the placeholder iff remove_on_success is
\* set and as many failure results (errors + fatals + xpasses + fails) are
\* counted as were at entry; then exactly the .mp4 attachments that were not
\* there at entry are replaced and every file that was there at entry is
\* left as it is; otherwise no file is replaced.
C23_NewVideosReplacedOnSuccess ==
    [][Len(capStack') < Len(capStack) =>
        LET frame == capStack[Len(capStack)]
            newVideos == {file \in Files :
                            /\ file[Len(file)] = ".mp4"
                            /\ attachments'[file] # "absent"
                            /\ file \notin frame.entryFiles}
        IN  IF vret'.remove_on_success
                /\ Failures(results') = Failures(frame.entryResults)
            THEN /\ \A file \in newVideos : attachments'[file] = "placeholder"
                 /\ \A file \in Files \ newVideos :
                        attachments'[file] = attachments[file]
                 /\ \A file \in frame.entryFiles :
                        attachments'[file] = attachments[file]
            ELSE \A file \in Files :
                    \/ attachments'[file] = attachments[file]
                    \/ attachments[file] = "absent" /\ attachments'[file] = "video"
    ]_vars

\* A block left by an exception with no failure counted: its video was
\* replaced, a video that was there at entry was not
C23_Witness ==
    /\ vret.op = "exit"
    /\ vret.remove_on_success
    /\ vret.exc = "BodyError"
    /\ vret.replaced # {}
    /\ \E file \in vret.entryFiles :
            file[Len(file)] = ".mp4" /\ attachments[file] = "video"

\* ---------------------------------------------------------- wait properties
WaitDone == wait.pc = "done"

\* The lookups made before the last one
Earlier == 1..(Len(wait.attempts) - 1)

LastAttempt == wait.attempts[Len(wait.attempts)]

\* C22: wait_for_any_object and wait_for_any_object_exists look the names up
\* in list order, round after round, and return the object of the first
\* lookup that succeeds, every lookup before it having failed; they raise
\* LookupError only after every lookup of every name failed in every round
\* made and the last round ended with more than timeout elapsed; any other
\* exception of a lookup ends the call at once with that exception.
C22_FirstFoundOrTimeout ==
    /\ \A k \in 1..Len(wait.attempts) :
            /\ wait.attempts[k].round = ((k - 1) \div Len(wait.names)) + 1
            /\ wait.attempts[k].name = wait.names[((k - 1) % Len(wait.names)) + 1]
    /\ \A k \in Earlier : wait.attempts[k].answer = "LookupError"
    /\ ~WaitDone /\ wait.attempts # <<>> => LastAttempt.answer = "LookupError"
    /\ WaitDone /\ wait.exc = NoExc =>
            /\ wait.attempts # <<>>
            /\ LastAttempt.answer = "found"
            /\ wait.obj = LastAttempt.name
    /\ WaitDone /\ wait.exc = "LookupError" =>
            /\ \A k \in 1..Len(wait.attempts) :
                    wait.attempts[k].answer = "LookupError"
            /\ Len(wait.attempts) = wait.round * Len(wait.names)
            /\ wait.now > wait.timeout
    /\ WaitDone /\ wait.exc = "RuntimeError" =>
            /\ wait.attempts # <<>>
            /\ LastAttempt.answer = "RuntimeError"
    /\ WaitDone /\ wait.exc = "SquishCapabilityError" => wait.attempts = <<>>
    /\ WaitDone => wait.exc \in {NoExc, "LookupError", "RuntimeError",
                                 "SquishCapabilityError"}

\* The second name was found in the second round, after three failures
C22_Witness ==
    /\ WaitDone
    /\ wait.exc = NoExc
    /\ wait.names = <<"a", "b">>
    /\ wait.round = 2
    /\ Len(wait.attempts) = 4
    /\ wait.obj = "b"
====
